---------------------------- MODULE Spec2Model ----------------------------
(***************************************************************************)
(* Acquisition core of the TENG multi-channel touch-sensor upper computer: *)
(*   - SerialThread (serial_handler.py): the worker that reads the serial  *)
(*     port, resynchronises on the frame tail 00 00 80 7F and emits        *)
(*     time-stamped 8-channel samples;                                     *)
(*   - SerialManager (serial_manager.py): connect / disconnect and the     *)
(*     time offset carried from one session to the next;                   *)
(*   - TouchDetector (modules/touch_detector.py): the 4x4 classification;  *)
(*   - DataManager (modules/data_manager.py): the per-channel store.       *)
(*                                                                         *)
(* A byte is a number 0..255.  A float is its IEEE-754 bit pattern written *)
(* as the four bytes <<b3, b2, b1, b0>>, most significant first, so that   *)
(* decoding a little-endian group of the wire reverses it.  Time is        *)
(* counted in clock ticks.                                                 *)
(***************************************************************************)
EXTENDS Integers, Sequences, FiniteSets, TLC

VARIABLES
    clock,              \* time.time(), in ticks
    wire,               \* bytes the device has sent and the worker has not read (in_waiting)
    sent,               \* the segments the device has sent so far (device side)
    thread,             \* number of SerialThread objects created so far (0: serial_thread is None)
    wpc,                \* position of the worker: none, created, loop, process, finally, finished
    running,            \* SerialThread.running
    port_open,          \* SerialThread.serial_port is open
    buffer,             \* SerialThread.buffer
    start_time,         \* SerialThread.start_time
    time_offset,        \* SerialThread.time_offset
    data_received,      \* samples emitted on data_received, oldest first
    status_changed,     \* statuses emitted on status_changed, oldest first
    mpc,                \* position of the GUI thread inside connect_serial / disconnect_serial
    connect_time,       \* current_time read by connect_serial
    last_time_offset,   \* main_window.last_time_offset
    carried_offset,     \* the last_time_offset the current SerialThread was created with
    replaced,           \* workers still running whose SerialThread object connect_serial replaced
    stop_requested,     \* stop() has been called on the current SerialThread
    failed,             \* the current worker has caught a serial.SerialException
    connect_button,     \* connect_button.isEnabled()
    touch_values,       \* the values given to TouchDetector.detect_touch
    touch_threshold,    \* TouchDetector.touch_threshold
    touch_result,       \* what the last detect_touch call returned, <<>> before any call
    touch_used,         \* the threshold the last detect_touch call compared with
    touch_detected,     \* what the last detect_touch call emitted on touch_detected
    add_pc,             \* position inside add_data_point: 0 outside, i about to write channel i, 9 after the loop
    add_args,           \* the arguments of the add_data_point call under way
    delivered,          \* how many of the emitted samples have reached the consumer's slot
    observed,           \* what the consumer saw at its last read of the store
    snapshot,           \* the value a get_channel_data / get_all_data call returned last
    full_data,          \* DataManager.full_data: per channel, the points <<voltage, time>>
    display_data,       \* DataManager.display_data
    data_acquisition_start_time,    \* DataManager.data_acquisition_start_time, -1 for None
    last_update_time,   \* DataManager._last_update_time
    data_updated,       \* number of data_updated signals emitted
    store_log,          \* the calls made on the DataManager, oldest first
    data_queues,        \* PlotManager.data_queues: per channel, the points <<voltage, time>>
    plot_start_time,    \* PlotManager.data_acquisition_start_time, -1 for None
    plot_log,           \* the samples handed to update_plots since the last clear, oldest first
    pixel_map_signal,   \* what the last PlotManager call emitted on update_pixel_map_signal
    digital_matrix_signal   \* what it emitted on update_digital_matrix_signal

serialVars == <<clock, wire, sent, thread, wpc, running, port_open, buffer, start_time,
                time_offset, data_received, status_changed, mpc, connect_time,
                last_time_offset, carried_offset, replaced, stop_requested, failed,
                connect_button>>

\* what only connect_serial, stop() and the worker's except clauses write
sessionVars == <<carried_offset, replaced, stop_requested, failed>>

touchVars == <<touch_values, touch_threshold, touch_result, touch_used, touch_detected>>

storeVars == <<full_data, display_data, data_acquisition_start_time, last_update_time,
               data_updated, store_log, snapshot, add_pc, add_args, delivered, observed>>

\* what the calls made one at a time on the DataManager leave alone
pipeVars == <<add_pc, add_args, delivered, observed>>

plotVars == <<data_queues, plot_start_time, plot_log, pixel_map_signal,
              digital_matrix_signal>>

vars == <<serialVars, touchVars, storeVars, plotVars>>

\* what the serial side never touches
nonSerialVars == <<touchVars, storeVars, plotVars>>

-----------------------------------------------------------------------------
(* Bounds of the model *)

MaxSegs == 3        \* segments (frames or garbage runs) the device sends
MaxChunk == 3       \* longest partial read, in bytes (a read may also take all of the wire)
MaxThreads == 2     \* SerialThread objects created (connects)
MaxClock == 3       \* ticks of the wall clock
MaxBurst == 50      \* longest burst of line noise, in bytes
MaxLevel == 2       \* highest voltage step of a channel value or a threshold
MaxCalls == 3       \* calls made on the DataManager, and on the PlotManager
MaxWindow == 2      \* PlotManager.max_data_points, the length of the display window

-----------------------------------------------------------------------------
(* Constants of the protocol *)

data_frame_tail == <<0, 0, 128, 127>>

payload_length == 32

frame_length == 36

max_buffer_size == frame_length * 10

\* voltages are counted in steps of 0.5 V: touch_threshold=0.5 is one step
default_threshold == 1

\* the 0.05 s between two accepted add_data_point calls, in ticks of 0.025 s
min_interval == 2

-----------------------------------------------------------------------------
(* Sequences of bytes *)

Drop(s, n) == SubSeq(s, n + 1, Len(s))

Last(s, n) == SubSeq(s, Len(s) - n + 1, Len(s))

Min(S) == CHOOSE x \in S : \A y \in S : x <= y

\* the 0-based places at which the tail occurs in s
TailPlaces(s) == {i \in 0..(Len(s) - 4) : SubSeq(s, i + 1, i + 4) = data_frame_tail}

\* bytearray.index(tail): the first place, -1 standing for ValueError
TailIndex(s) == IF TailPlaces(s) = {} THEN -1 ELSE Min(TailPlaces(s))

\* a slip: the group is read big-endian ('>f')
UnpackBigEndian(bs) == <<bs[1], bs[2], bs[3], bs[4]>>

\* struct.unpack('<f', bytes): the little-endian group gives the bit pattern
Unpack(bs) == <<bs[4], bs[3], bs[2], bs[1]>>

\* the 8 values of a 32-byte span
UnpackFrame(fd) == [i \in 1..8 |-> Unpack(SubSeq(fd, 4 * (i - 1) + 1, 4 * i))]


-----------------------------------------------------------------------------
(* The device: what it puts on the line *)

\* IEEE-754 single precision bit patterns of 1.0 .. 10.0
Float(n) ==
    CASE n = 1 -> <<63, 128, 0, 0>>
      [] n = 2 -> <<64, 0, 0, 0>>
      [] n = 3 -> <<64, 64, 0, 0>>
      [] n = 4 -> <<64, 128, 0, 0>>
      [] n = 5 -> <<64, 160, 0, 0>>
      [] n = 6 -> <<64, 192, 0, 0>>
      [] n = 7 -> <<64, 224, 0, 0>>
      [] n = 8 -> <<65, 0, 0, 0>>
      [] n = 9 -> <<65, 16, 0, 0>>
      [] n = 10 -> <<65, 32, 0, 0>>

PlusInfinity == <<127, 128, 0, 0>>      \* 0x7F800000: its little-endian bytes are the tail

Zero == <<0, 0, 0, 0>>

LowWord == <<0, 0, 127, 128>>           \* 0x00007F80: little-endian bytes 80 7F 00 00

LowByte == <<0, 0, 0, 127>>             \* 0x0000007F: little-endian bytes 7F 00 00 00

FrameKinds == {"F1", "F2", "F3", "FInf", "FUn", "FS"}

\* garbage runs without a tail sequence in them
CleanGarbage == {"G5", "GT3", "G40"}

GarbageKinds == CleanGarbage \cup {"GTail"}

\* the 8 channel values of a frame of kind k
Payload(k) ==
    CASE k = "F1" -> [i \in 1..8 |-> Float(i)]
      [] k = "F2" -> [i \in 1..8 |-> Float(i + 1)]
      [] k = "F3" -> [i \in 1..8 |-> Float(i + 2)]
      [] k = "FInf" -> [i \in 1..8 |-> IF i = 3 THEN PlusInfinity ELSE Float(i)]
      [] k = "FUn" -> [i \in 1..8 |-> IF i = 1 THEN Zero ELSE IF i = 2 THEN LowWord ELSE Float(i)]
      [] k = "FS" -> [i \in 1..8 |-> IF i = 1 THEN LowByte ELSE Float(i)]

\* the 32 payload bytes: each value little-endian, channel 0 first
PackFrame(vals) == [j \in 1..payload_length |-> vals[((j - 1) \div 4) + 1][4 - ((j - 1) % 4)]]

\* the bytes of a segment of kind k
SegBytes(k) ==
    CASE k \in FrameKinds -> PackFrame(Payload(k)) \o data_frame_tail
      [] k = "G5" -> [j \in 1..5 |-> 17]
      [] k = "GT3" -> <<17, 0, 0, 128>>
      [] k = "G40" -> [j \in 1..40 |-> IF j % 2 = 0 THEN 127 ELSE 128]
      [] k = "GTail" -> <<17, 17>> \o data_frame_tail

\* the device sends one more segment
Send(k) ==
    /\ port_open
    /\ Len(sent) < MaxSegs
    /\ wire' = wire \o SegBytes(k)
    /\ sent' = Append(sent, k)
    /\ UNCHANGED <<clock, thread, wpc, running, port_open, buffer, start_time, time_offset,
                   data_received, status_changed, mpc, connect_time, last_time_offset,
                   connect_button>>
    /\ UNCHANGED <<sessionVars, nonSerialVars>>

-----------------------------------------------------------------------------
(* SerialThread.process_buffer, one iteration of its while loop at a time *)

\* line 112: the tail lies too early for a full frame to precede it
ShortFrame(t) == t < payload_length

\* a slip: the truncation starts one frame too late
OverflowLate(buf) == Len(buf) > max_buffer_size + frame_length

\* line 107: the buffer has grown too large without a tail
Overflow(buf) == Len(buf) > max_buffer_size

\* lines 118-127: the span before the tail, decoded
FrameValues(buf, t) == UnpackFrame(SubSeq(buf, t - payload_length + 1, t))

\* line 135
RelativeTime == (clock - start_time) + time_offset

\* a slip: the bytes before the tail are removed and the tail itself is left
IterBufferKeepsTail(buf) ==
    LET t == TailIndex(buf) IN
    IF t = -1
    THEN IF Len(buf) > max_buffer_size THEN Last(buf, frame_length) ELSE buf
    ELSE Drop(buf, t)

\* a slip: the pending bytes are dropped when no tail is found
IterBufferDropsPending(buf) ==
    LET t == TailIndex(buf) IN
    IF t = -1
    THEN <<>>
    ELSE Drop(buf, t + Len(data_frame_tail))

\* the buffer after one iteration that found the loop condition true
IterBuffer(buf) ==
    LET t == TailIndex(buf) IN
    IF t = -1
    THEN IF Overflow(buf) THEN Last(buf, frame_length) ELSE buf
    ELSE Drop(buf, t + Len(data_frame_tail))

\* what one iteration emits: no sample or one
IterEmits(buf) ==
    LET t == TailIndex(buf) IN
    IF t = -1 \/ ShortFrame(t)
    THEN <<>>
    ELSE <<[values |-> FrameValues(buf, t), time |-> RelativeTime, thread |-> thread]>>

\* the loop goes on after this iteration (no break)
IterContinues(buf) == TailIndex(buf) # -1

\* a slip: a buffer of exactly one frame is left for the next call
LoopConditionStrict(buf) == Len(buf) > frame_length

\* line 101: the loop condition
LoopCondition(buf) == Len(buf) >= frame_length

\* a slip: a discarded short frame is reported on status_changed
ProcessBufferReports ==
    /\ wpc = "process"
    /\ IF LoopCondition(buffer)
       THEN /\ buffer' = IterBuffer(buffer)
            /\ data_received' = data_received \o IterEmits(buffer)
            /\ status_changed' = IF TailIndex(buffer) >= 0 /\ ShortFrame(TailIndex(buffer))
                                  THEN Append(status_changed, "error")
                                  ELSE status_changed
            /\ wpc' = IF IterContinues(buffer) THEN "process" ELSE "loop"
       ELSE /\ wpc' = "loop"
            /\ UNCHANGED <<buffer, data_received, status_changed>>
    /\ UNCHANGED <<clock, wire, sent, thread, running, port_open, start_time, time_offset,
                   mpc, connect_time, last_time_offset, connect_button>>
    /\ UNCHANGED <<sessionVars, nonSerialVars>>

ProcessBuffer ==
    /\ wpc = "process"
    /\ IF LoopCondition(buffer)
       THEN /\ buffer' = IterBuffer(buffer)
            /\ data_received' = data_received \o IterEmits(buffer)
            /\ wpc' = IF IterContinues(buffer) THEN "process" ELSE "loop"
       ELSE /\ wpc' = "loop"
            /\ UNCHANGED <<buffer, data_received>>
    /\ UNCHANGED <<clock, wire, sent, thread, running, port_open, start_time, time_offset,
                   status_changed, mpc, connect_time, last_time_offset, connect_button>>
    /\ UNCHANGED <<sessionVars, nonSerialVars>>

-----------------------------------------------------------------------------
(* SerialThread.run *)

\* QThread.isRunning(): from start() until run() has returned
IsRunning == wpc \in {"created", "loop", "read", "process", "finally"}

\* lines 40-67: the port is opened, the test byte written, the loop entered
RunOpen ==
    /\ wpc = "created"
    /\ port_open' = TRUE
    /\ running' = TRUE
    /\ status_changed' = Append(status_changed, "connected")
    /\ wpc' = "loop"
    /\ UNCHANGED <<clock, wire, sent, thread, buffer, start_time, time_offset, data_received,
                   mpc, connect_time, last_time_offset, connect_button>>
    /\ UNCHANGED <<sessionVars, nonSerialVars>>

\* line 70: while self.running
LoopTest ==
    /\ wpc = "loop"
    /\ wpc' = IF running THEN "read" ELSE "finally"
    /\ UNCHANGED <<clock, wire, sent, thread, running, port_open, buffer, start_time,
                   time_offset, data_received, status_changed, mpc, connect_time,
                   last_time_offset, connect_button>>
    /\ UNCHANGED <<sessionVars, nonSerialVars>>

\* lines 73-76: n bytes are waiting and are appended to the buffer
Read(n) ==
    /\ wpc = "read"
    /\ port_open
    /\ n \in 1..Len(wire)
    /\ buffer' = buffer \o SubSeq(wire, 1, n)
    /\ wire' = Drop(wire, n)
    /\ wpc' = "process"
    /\ UNCHANGED <<clock, sent, thread, running, port_open, start_time, time_offset,
                   data_received, status_changed, mpc, connect_time, last_time_offset,
                   connect_button>>
    /\ UNCHANGED <<sessionVars, nonSerialVars>>

\* lines 73, 80: nothing is waiting; sleep and test the flag again
Sleep ==
    /\ wpc = "read"
    /\ port_open
    /\ Len(wire) = 0
    /\ wpc' = "loop"
    /\ UNCHANGED <<clock, wire, sent, thread, running, port_open, buffer, start_time,
                   time_offset, data_received, status_changed, mpc, connect_time,
                   last_time_offset, connect_button>>
    /\ UNCHANGED <<sessionVars, nonSerialVars>>

\* lines 82-84: the port was closed under the worker; the read raises
ReadError ==
    /\ wpc = "read"
    /\ ~port_open
    /\ status_changed' = Append(status_changed, "read_error")
    /\ failed' = TRUE
    /\ wpc' = "finally"
    /\ UNCHANGED <<clock, wire, sent, thread, running, port_open, buffer, start_time,
                   time_offset, data_received, mpc, connect_time, last_time_offset,
                   connect_button>>
    /\ UNCHANGED <<carried_offset, replaced, stop_requested, nonSerialVars>>

\* a slip: after its finally clause the worker enters the loop again
FinallyLoops ==
    /\ wpc = "finally"
    /\ port_open' = FALSE
    /\ status_changed' = Append(status_changed, "disconnected")
    /\ wpc' = "loop"
    /\ UNCHANGED <<clock, wire, sent, thread, running, buffer, start_time, time_offset,
                   data_received, mpc, connect_time, last_time_offset, connect_button>>
    /\ UNCHANGED <<sessionVars, nonSerialVars>>

\* a slip: the finally clause emits the status and leaves the port as it is
FinallyLeavesOpen ==
    /\ wpc = "finally"
    /\ status_changed' = Append(status_changed, "disconnected")
    /\ wpc' = "finished"
    /\ UNCHANGED <<clock, wire, sent, thread, running, port_open, buffer, start_time,
                   time_offset, data_received, mpc, connect_time, last_time_offset,
                   connect_button>>
    /\ UNCHANGED <<sessionVars, nonSerialVars>>

\* lines 89-93
Finally ==
    /\ wpc = "finally"
    /\ port_open' = FALSE
    /\ status_changed' = Append(status_changed, "disconnected")
    /\ wpc' = "finished"
    /\ UNCHANGED <<clock, wire, sent, thread, running, buffer, start_time, time_offset,
                   data_received, mpc, connect_time, last_time_offset, connect_button>>
    /\ UNCHANGED <<sessionVars, nonSerialVars>>

-----------------------------------------------------------------------------
(* SerialManager.connect_serial and SerialThread.__init__ *)

\* serial_manager.py line 87: current_time = time.time()
ConnectSerial ==
    /\ mpc = "idle"
    /\ connect_button
    /\ thread < MaxThreads
    /\ connect_time' = clock
    /\ mpc' = "connect"
    /\ UNCHANGED <<clock, wire, sent, thread, wpc, running, port_open, buffer, start_time,
                   time_offset, data_received, status_changed, last_time_offset,
                   connect_button>>
    /\ UNCHANGED <<sessionVars, nonSerialVars>>

\* serial_manager.py line 88
StartTimeWithOffset == connect_time - last_time_offset

\* serial_handler.py lines 34-36, with start_time the clock now
InitialOffset == clock - StartTimeWithOffset

\* serial_manager.py lines 91-112 and SerialThread.__init__
ThreadInit ==
    /\ mpc = "connect"
    /\ thread' = thread + 1
    /\ carried_offset' = last_time_offset
    /\ replaced' = replaced + (IF IsRunning THEN 1 ELSE 0)
    /\ stop_requested' = FALSE
    /\ failed' = FALSE
    /\ start_time' = clock
    /\ time_offset' = InitialOffset
    /\ buffer' = <<>>
    /\ running' = FALSE
    /\ port_open' = FALSE
    /\ wpc' = "created"
    /\ connect_button' = FALSE
    /\ mpc' = "idle"
    /\ UNCHANGED <<clock, wire, sent, data_received, status_changed, connect_time,
                   last_time_offset>>
    /\ UNCHANGED nonSerialVars

-----------------------------------------------------------------------------
(* SerialManager.disconnect_serial and SerialThread.stop *)

\* serial_manager.py line 123: what disconnect_serial keeps for the next connect
SavedOffset == time_offset

\* serial_manager.py lines 119-123, and 146-154 when no worker is running
DisconnectSerial ==
    /\ mpc = "idle"
    /\ ~connect_button
    /\ IF IsRunning
       THEN /\ last_time_offset' = SavedOffset
            /\ mpc' = "stop"
            /\ UNCHANGED <<connect_button, status_changed>>
       ELSE /\ connect_button' = TRUE
            /\ status_changed' = Append(status_changed, "disconnected")
            /\ UNCHANGED <<last_time_offset, mpc>>
    /\ UNCHANGED <<clock, wire, sent, thread, wpc, running, port_open, buffer, start_time,
                   time_offset, data_received, connect_time>>
    /\ UNCHANGED <<sessionVars, nonSerialVars>>

\* serial_handler.py line 150
StopRunning ==
    /\ mpc = "stop"
    /\ running' = FALSE
    /\ stop_requested' = TRUE
    /\ mpc' = "stop_offset"
    /\ UNCHANGED <<clock, wire, sent, thread, wpc, port_open, buffer, start_time, time_offset,
                   data_received, status_changed, connect_time, last_time_offset,
                   connect_button>>
    /\ UNCHANGED <<carried_offset, replaced, failed, nonSerialVars>>

\* serial_handler.py line 154: the offset stop() stores
StoppedOffset == clock - start_time

\* serial_handler.py lines 153-154
StopOffset ==
    /\ mpc = "stop_offset"
    /\ time_offset' = StoppedOffset
    /\ mpc' = "stop_close"
    /\ UNCHANGED <<clock, wire, sent, thread, wpc, running, port_open, buffer, start_time,
                   data_received, status_changed, connect_time, last_time_offset,
                   connect_button>>
    /\ UNCHANGED <<sessionVars, nonSerialVars>>

\* serial_handler.py lines 157-174
StopClose ==
    /\ mpc = "stop_close"
    /\ port_open' = FALSE
    /\ mpc' = "stop_wait"
    /\ UNCHANGED <<clock, wire, sent, thread, wpc, running, buffer, start_time, time_offset,
                   data_received, status_changed, connect_time, last_time_offset,
                   connect_button>>
    /\ UNCHANGED <<sessionVars, nonSerialVars>>

\* serial_handler.py line 177 and serial_manager.py lines 129-154: the waits end
\* because the worker has finished or because they time out; a worker that is
\* still running is then terminated
DisconnectEnd ==
    /\ mpc = "stop_wait"
    /\ wpc' = "finished"
    /\ port_open' = FALSE
    /\ status_changed' = status_changed
                         \o (IF wpc = "finished" THEN <<>> ELSE <<"terminated">>)
                         \o <<"disconnected">>
    /\ connect_button' = TRUE
    /\ mpc' = "idle"
    /\ UNCHANGED <<clock, wire, sent, thread, running, buffer, start_time, time_offset,
                   data_received, connect_time, last_time_offset>>
    /\ UNCHANGED <<sessionVars, nonSerialVars>>

\* the wall clock advances
Tick ==
    /\ clock < MaxClock
    /\ clock' = clock + 1
    /\ UNCHANGED <<wire, sent, thread, wpc, running, port_open, buffer, start_time,
                   time_offset, data_received, status_changed, mpc, connect_time,
                   last_time_offset, connect_button>>
    /\ UNCHANGED <<sessionVars, nonSerialVars>>

-----------------------------------------------------------------------------
(* The state after MainWindow and SerialManager are constructed *)

\* main_window.last_time_offset before the first disconnect
InitialLastTimeOffset == 0

InitSerial ==
    /\ clock = 0
    /\ wire = <<>>
    /\ sent = <<>>
    /\ thread = 0
    /\ wpc = "none"
    /\ running = FALSE
    /\ port_open = FALSE
    /\ buffer = <<>>
    /\ start_time = 0
    /\ time_offset = 0
    /\ data_received = <<>>
    /\ status_changed = <<>>
    /\ mpc = "idle"
    /\ connect_time = 0
    /\ last_time_offset = InitialLastTimeOffset
    /\ carried_offset = InitialLastTimeOffset
    /\ replaced = 0
    /\ stop_requested = FALSE
    /\ failed = FALSE
    /\ connect_button = TRUE

\* TouchDetector() with no sample classified yet
InitTouch ==
    /\ touch_values = <<>>
    /\ touch_threshold = default_threshold
    /\ touch_result = <<>>
    /\ touch_used = default_threshold
    /\ touch_detected = <<>>

\* DataManager._last_update_time = 0 is the epoch; the clock of the model counts
\* from the start of the program, more than 0.05 s later
InitialLastUpdate == 0 - min_interval

\* DataManager()
InitStore ==
    /\ full_data = [i \in 1..8 |-> <<>>]
    /\ display_data = [i \in 1..8 |-> <<>>]
    /\ data_acquisition_start_time = -1
    /\ last_update_time = InitialLastUpdate
    /\ data_updated = 0
    /\ store_log = <<>>
    /\ snapshot = [ref |-> "none", ch |-> 0, taken |-> <<>>]
    /\ add_pc = 0
    /\ add_args = [values |-> <<>>, t |-> 0]
    /\ delivered = 0
    /\ observed = [i \in 1..8 |-> <<>>]

\* plot_manager.py lines 18-50, with the empty queues the main window hands over
InitPlot ==
    /\ data_queues = [i \in 1..8 |-> <<>>]
    /\ plot_start_time = -1
    /\ plot_log = <<>>
    /\ pixel_map_signal = <<>>
    /\ digital_matrix_signal = <<>>

Init == InitSerial /\ InitTouch /\ InitStore /\ InitPlot

-----------------------------------------------------------------------------
(* The decoder: one session, the device sending frames and garbage runs that *)
(* the worker reads in chunks of any size                                    *)

NextDecoder ==
    \/ ConnectSerial
    \/ ThreadInit
    \/ RunOpen
    \/ LoopTest
    \/ \E k \in FrameKinds \cup GarbageKinds : Send(k)
    \/ \E n \in 1..MaxChunk : Read(n)
    \/ Read(Len(wire))
    \/ Sleep
    \/ ProcessBuffer

SpecDecoder == Init /\ [][NextDecoder]_vars

-----------------------------------------------------------------------------
(* A noisy line: bursts of bytes that never hold a tail sequence *)

NoiseByte == 128

\* the line delivers n more bytes of noise
Noise(n) ==
    /\ port_open
    /\ Len(wire) + n <= MaxBurst
    /\ wire' = wire \o [j \in 1..n |-> NoiseByte]
    /\ UNCHANGED <<clock, sent, thread, wpc, running, port_open, buffer, start_time,
                   time_offset, data_received, status_changed, mpc, connect_time,
                   last_time_offset, connect_button>>
    /\ UNCHANGED <<sessionVars, nonSerialVars>>

NextOverflow ==
    \/ ConnectSerial
    \/ ThreadInit
    \/ RunOpen
    \/ LoopTest
    \/ \E n \in 1..MaxBurst : Noise(n)
    \/ Read(Len(wire))
    \/ Sleep
    \/ ProcessBuffer

SpecOverflow == Init /\ [][NextOverflow]_vars

\* the anomalies process_buffer meets: a tail that comes too early and line noise
\* without any tail, between valid frames
AnomalyKinds == {"F1", "GTail"}

NextAnomaly ==
    \/ ConnectSerial
    \/ ThreadInit
    \/ RunOpen
    \/ LoopTest
    \/ \E k \in AnomalyKinds : Send(k)
    \/ Noise(MaxBurst)
    \/ Read(Len(wire))
    \/ Sleep
    \/ ProcessBuffer

SpecAnomaly == Init /\ [][NextAnomaly]_vars

-----------------------------------------------------------------------------
(* Claims about the decoder *)

RECURSIVE FramesOf(_)
\* the payloads of the frames among the segments s, in stream order
FramesOf(s) ==
    IF s = <<>> THEN <<>>
    ELSE (IF Head(s) \in FrameKinds THEN <<Payload(Head(s))>> ELSE <<>>) \o FramesOf(Tail(s))

\* the values of the samples emitted so far, in order of emission
EmittedValues == [i \in 1..Len(data_received) |-> data_received[i].values]

\* every byte the device has sent was read and process_buffer has returned
AllFed == wire = <<>> /\ wpc \in {"loop", "read"}

\* process_buffer is about to run an iteration on a buffer whose first tail is too early
ShortTailAhead ==
    /\ wpc = "process"
    /\ LoopCondition(buffer)
    /\ TailIndex(buffer) >= 0
    /\ TailIndex(buffer) < payload_length

\* C1 (as claimed): once all bytes of a stream of valid frames and tail-free garbage
\* runs are fed, in any chunking, the emitted samples are exactly the frames' payloads,
\* in stream order.
C1_Resync ==
    (AllFed /\ \A i \in 1..Len(sent) : sent[i] \in FrameKinds \cup CleanGarbage)
        => EmittedValues = FramesOf(sent)

\* C2 (as claimed): each time process_buffer has returned, no tail sequence is left at
\* an index below 32 of the buffer, whatever the length of the buffer.
C2_ShortTailAlwaysRemoved ==
    wpc \in {"loop", "read"} => ~(TailIndex(buffer) >= 0 /\ TailIndex(buffer) < payload_length)

\* C2 (amended): an iteration of process_buffer on a buffer of at least 36 bytes whose
\* first tail lies at t < 32 emits no sample and removes bytes [0, t+4); on a buffer
\* shorter than 36 bytes process_buffer removes and emits nothing, so the tail stays
\* until the buffer has reached 36 bytes.
C2_DiscardShortFrame ==
    [][/\ (ShortTailAhead /\ wire' = wire)
            => /\ buffer' = Drop(buffer, TailIndex(buffer) + 4)
               /\ data_received' = data_received
       /\ (wpc = "process" /\ ~LoopCondition(buffer) /\ wire' = wire)
            => /\ buffer' = buffer
               /\ data_received' = data_received]_vars

C2_Witness == ShortTailAhead /\ Len(wire) > 0 /\ Len(data_received) > 0

\* C3 (as claimed): on a line that never delivers a tail sequence the buffer never
\* holds more than 360 bytes, in any reachable state.
C3_NeverAbove360 == Len(buffer) <= max_buffer_size

\* C3 (amended): on a line that never delivers a tail sequence the buffer holds at most
\* 360 bytes each time process_buffer has returned; between the append of a chunk and
\* that return it holds at most 360 bytes plus the chunk.
C3_BoundedMemory ==
    /\ wpc # "process" => Len(buffer) <= max_buffer_size
    /\ Len(buffer) <= max_buffer_size + MaxBurst

C3_Witness == wpc = "loop" /\ Len(buffer) = max_buffer_size

\* C4 (as claimed): every frame the device has sent, whatever its payload, has given
\* exactly one sample holding its 8 values, once its bytes are fed.
C4_PassThrough ==
    (AllFed /\ \A i \in 1..Len(sent) : sent[i] \in FrameKinds)
        => EmittedValues = FramesOf(sent)

-----------------------------------------------------------------------------
(* TouchDetector *)

\* the voltages of a channel and the thresholds, in steps
Levels == 0..MaxLevel

\* the lengths of the lists handed to detect_touch: one short, 8 channels, one long
Lengths == {7, 8, 9}

\* a slip: a signal at the threshold counts as active
ActiveAtThreshold(signal, threshold) == signal >= threshold

\* lines 42-43: signal > self.touch_threshold
Active(signal, threshold) == signal > threshold

\* line 42 over row_signals = values[:4]: the 0-based places of the active rows
ActivatedRows(values, threshold) ==
    {i \in 0..3 : i < Len(values) /\ Active(values[i + 1], threshold)}

\* line 43 over col_signals = values[4:]: the 0-based places of the active columns
ActivatedCols(values, threshold) ==
    {i \in 0..(Len(values) - 5) : Active(values[i + 5], threshold)}

\* the one element of a set of one
TheOne(S) == CHOOSE x \in S : TRUE

\* lines 34-59: what detect_touch returns
DetectResult(values, threshold) ==
    IF Len(values) < 8
    THEN <<-1, -1>>
    ELSE IF /\ Cardinality(ActivatedRows(values, threshold)) = 1
            /\ Cardinality(ActivatedCols(values, threshold)) = 1
         THEN <<TheOne(ActivatedRows(values, threshold)), TheOne(ActivatedCols(values, threshold))>>
         ELSE <<-1, -1>>

\* line 51: what detect_touch emits on touch_detected
DetectEmits(values, threshold) ==
    IF DetectResult(values, threshold) = <<-1, -1>>
    THEN <<>>
    ELSE <<DetectResult(values, threshold)>>

\* TouchDetector.set_threshold
SetThreshold(t) ==
    /\ touch_threshold' = t
    /\ UNCHANGED <<touch_values, touch_result, touch_used, touch_detected>>
    /\ UNCHANGED <<serialVars, storeVars, plotVars>>

\* TouchDetector.detect_touch(touch_values)
DetectTouch ==
    /\ touch_result' = DetectResult(touch_values, touch_threshold)
    /\ touch_detected' = DetectEmits(touch_values, touch_threshold)
    /\ touch_used' = touch_threshold
    /\ UNCHANGED <<touch_values, touch_threshold>>
    /\ UNCHANGED <<serialVars, storeVars, plotVars>>

\* a detector about to classify any list of channel values
TouchInputs ==
    /\ touch_values \in UNION {[1..n -> Levels] : n \in Lengths}
    /\ touch_threshold = default_threshold
    /\ touch_result = <<>>
    /\ touch_used = default_threshold
    /\ touch_detected = <<>>

NextTouch ==
    \/ \E t \in Levels : SetThreshold(t)
    \/ DetectTouch

InitTouchInputs == InitSerial /\ TouchInputs /\ InitStore /\ InitPlot

SpecTouch == InitTouchInputs /\ [][NextTouch]_vars

-----------------------------------------------------------------------------
(* Claims about the touch detector *)

\* r is the only one of the four row channels above the threshold of the last call
OnlyRow(r) ==
    /\ touch_values[r + 1] > touch_used
    /\ \A q \in (0..3) \ {r} : ~(touch_values[q + 1] > touch_used)

\* c is the only one of the four column channels above the threshold of the last call
OnlyCol(c) ==
    /\ touch_values[c + 5] > touch_used
    /\ \A q \in (0..3) \ {c} : ~(touch_values[q + 5] > touch_used)

\* C5: for 8 values and any threshold, detect_touch returns (r, c) and emits
\* touch_detected(r, c) exactly when r is the only row channel and c the only column
\* channel strictly above the threshold; in every other case it returns (-1, -1) and
\* emits nothing.
C5_SingleTouch ==
    (touch_result # <<>> /\ Len(touch_values) = 8) =>
        /\ \A r \in 0..3 : \A c \in 0..3 :
              (OnlyRow(r) /\ OnlyCol(c))
                 <=> (touch_result = <<r, c>> /\ touch_detected = <<(<<r, c>>)>>)
        /\ (~\E r \in 0..3 : \E c \in 0..3 : OnlyRow(r) /\ OnlyCol(c))
              => (touch_result = <<-1, -1>> /\ touch_detected = <<>>)

C5_Witness ==
    /\ Len(touch_values) = 8
    /\ touch_used = default_threshold
    /\ touch_values[1] = default_threshold
    /\ touch_result = <<1, 2>>
    /\ touch_detected = <<(<<1, 2>>)>>

\* C6 (as claimed): for a list of at least 8 values, a result other than (-1, -1) has
\* its row in 0..3 and its column in 0..3.
C6_OnGrid ==
    (touch_result # <<>> /\ touch_result # <<-1, -1>>)
        => (touch_result[1] \in 0..3 /\ touch_result[2] \in 0..3)

-----------------------------------------------------------------------------
(* The time base: sessions on a ticking clock, the device sending plain frames, *)
(* the GUI thread connecting and disconnecting while the worker runs            *)

NextTime ==
    \/ Tick
    \/ ConnectSerial
    \/ ThreadInit
    \/ RunOpen
    \/ LoopTest
    \/ Send("F1")
    \/ Read(Len(wire))
    \/ Sleep
    \/ ReadError
    \/ ProcessBuffer
    \/ Finally
    \/ DisconnectSerial
    \/ StopRunning
    \/ StopOffset
    \/ StopClose
    \/ DisconnectEnd

SpecTime == Init /\ [][NextTime]_vars

-----------------------------------------------------------------------------
(* connect_serial called as a method, whatever the connect button shows *)

\* serial_manager.py lines 45-88: connect_serial reads the settings and the clock; it
\* never looks at self.serial_thread
InvokeConnectSerial ==
    /\ mpc = "idle"
    /\ thread < MaxThreads
    /\ connect_time' = clock
    /\ mpc' = "connect"
    /\ UNCHANGED <<clock, wire, sent, thread, wpc, running, port_open, buffer, start_time,
                   time_offset, data_received, status_changed, last_time_offset,
                   connect_button>>
    /\ UNCHANGED <<sessionVars, nonSerialVars>>

\* the SerialThread workers of the SerialManager that are running
RunningWorkers == replaced + (IF IsRunning THEN 1 ELSE 0)

NextConnect ==
    \/ InvokeConnectSerial
    \/ ThreadInit
    \/ RunOpen
    \/ LoopTest
    \/ Send("F1")
    \/ Read(Len(wire))
    \/ Sleep
    \/ ReadError
    \/ ProcessBuffer
    \/ Finally
    \/ DisconnectSerial
    \/ StopRunning
    \/ StopOffset
    \/ StopClose
    \/ DisconnectEnd

SpecConnect == Init /\ [][NextConnect]_vars

-----------------------------------------------------------------------------
(* stop() called again on a SerialThread whose worker has exited *)

\* serial_handler.py lines 148-177 with no worker running: the flag, the offset, the
\* port (closed already) and a wait that returns at once
StopFinished ==
    /\ mpc = "idle"
    /\ wpc = "finished"
    /\ running' = FALSE
    /\ stop_requested' = TRUE
    /\ time_offset' = StoppedOffset
    /\ port_open' = FALSE
    /\ UNCHANGED <<clock, wire, sent, thread, wpc, buffer, start_time, data_received,
                   status_changed, mpc, connect_time, last_time_offset, connect_button>>
    /\ UNCHANGED <<carried_offset, replaced, failed, nonSerialVars>>

NextStop ==
    \/ Tick
    \/ ConnectSerial
    \/ ThreadInit
    \/ RunOpen
    \/ LoopTest
    \/ Sleep
    \/ ReadError
    \/ Finally
    \/ DisconnectSerial
    \/ StopRunning
    \/ StopOffset
    \/ StopClose
    \/ DisconnectEnd
    \/ StopFinished

SpecStop == Init /\ [][NextStop]_vars

-----------------------------------------------------------------------------
(* Transport errors: serial.SerialException raised by the port *)

\* the statuses the two except clauses of run() emit
ErrorStatuses == {"error", "read_error"}

\* lines 42-52, 86-88: serial.Serial(...) raises; no port was opened
OpenError ==
    /\ wpc = "created"
    /\ status_changed' = Append(status_changed, "error")
    /\ failed' = TRUE
    /\ wpc' = "finally"
    /\ UNCHANGED <<clock, wire, sent, thread, running, port_open, buffer, start_time,
                   time_offset, data_received, mpc, connect_time, last_time_offset,
                   connect_button>>
    /\ UNCHANGED <<carried_offset, replaced, stop_requested, nonSerialVars>>

\* lines 55-59, 86-88: the port is open but the test write times out
TestWriteError ==
    /\ wpc = "created"
    /\ port_open' = TRUE
    /\ status_changed' = Append(status_changed, "error")
    /\ failed' = TRUE
    /\ wpc' = "finally"
    /\ UNCHANGED <<clock, wire, sent, thread, running, buffer, start_time, time_offset,
                   data_received, mpc, connect_time, last_time_offset, connect_button>>
    /\ UNCHANGED <<carried_offset, replaced, stop_requested, nonSerialVars>>

\* a slip: after a failed read the worker sleeps and tries again
DeviceErrorRetries ==
    /\ wpc = "read"
    /\ port_open
    /\ status_changed' = Append(status_changed, "read_error")
    /\ failed' = TRUE
    /\ wpc' = "loop"
    /\ UNCHANGED <<clock, wire, sent, thread, running, port_open, buffer, start_time,
                   time_offset, data_received, mpc, connect_time, last_time_offset,
                   connect_button>>
    /\ UNCHANGED <<carried_offset, replaced, stop_requested, nonSerialVars>>

\* lines 73-74, 82-84: the device is gone; in_waiting or read raises on the open port
DeviceError ==
    /\ wpc = "read"
    /\ port_open
    /\ status_changed' = Append(status_changed, "read_error")
    /\ failed' = TRUE
    /\ wpc' = "finally"
    /\ UNCHANGED <<clock, wire, sent, thread, running, port_open, buffer, start_time,
                   time_offset, data_received, mpc, connect_time, last_time_offset,
                   connect_button>>
    /\ UNCHANGED <<carried_offset, replaced, stop_requested, nonSerialVars>>

NextFault ==
    \/ ConnectSerial
    \/ ThreadInit
    \/ RunOpen
    \/ OpenError
    \/ TestWriteError
    \/ LoopTest
    \/ Send("F1")
    \/ Read(Len(wire))
    \/ Sleep
    \/ DeviceError
    \/ ReadError
    \/ ProcessBuffer
    \/ Finally
    \/ DisconnectSerial
    \/ StopRunning
    \/ StopOffset
    \/ StopClose
    \/ DisconnectEnd

\* the worker thread is scheduled: a worker that has reached its finally clause runs it
SpecFault == Init /\ [][NextFault]_vars /\ WF_vars(Finally)

-----------------------------------------------------------------------------
(* Claims about the time base *)

\* C7 (as claimed): the relative times of the samples one SerialThread emits never
\* decrease, whatever the interleaving of process_buffer with a stop() call.
C7_Monotonic ==
    \A i \in 1..Len(data_received) : \A j \in 1..Len(data_received) :
        (i < j /\ data_received[i].thread = data_received[j].thread)
            => data_received[i].time <= data_received[j].time

\* C8 (as claimed): every sample of a SerialThread created with carried offset T is
\* stamped with a relative time of at least T.
C8_AtLeastCarried ==
    \A i \in 1..Len(data_received) :
        data_received[i].thread = thread => data_received[i].time >= carried_offset

\* C9 (as claimed): disconnect_serial keeps the current relative time of the
\* acquisition it stops as the carried offset of the next connect.
C9_StopPersists ==
    [][(mpc = "idle" /\ mpc' = "stop") => last_time_offset' = RelativeTime]_vars

-----------------------------------------------------------------------------
(* DataManager *)

\* the samples handed to the store: SampleOf(0) and SampleOf(1)
SampleIds == {0, 1}

\* a sample whose channel i holds v + i, so that no two channels agree
SampleOf(v) == [i \in 1..8 |-> v + i]

\* a slip: a call exactly 0.05 s after the last accepted one is dropped too
AcceptsLate(now, last) == now - last > min_interval

\* line 27: the call comes at least 0.05 s after the last accepted one
Accepts(now, last) == ~(now - last < min_interval)

\* a slip: the new point is put in front of the stored ones
PrependPoint(data, values, t) ==
    [i \in 1..8 |-> IF i - 1 < Len(values) THEN <<(<<values[i], t>>)>> \o data[i] ELSE data[i]]

\* lines 35-38: channel i (1-based) after the sample is appended
AppendPoint(data, values, t) ==
    [i \in 1..8 |-> IF i - 1 < Len(values) THEN Append(data[i], <<values[i], t>>) ELSE data[i]]

\* DataManager.add_data_point(values, t)
AddDataPoint(values, t) ==
    /\ Len(store_log) < MaxCalls
    /\ store_log' = Append(store_log, [op |-> "add", values |-> values, t |-> t, at |-> clock,
                                        ret |-> Accepts(clock, last_update_time)])
    /\ IF Accepts(clock, last_update_time)
       THEN /\ data_acquisition_start_time' =
                   IF data_acquisition_start_time = -1 THEN t ELSE data_acquisition_start_time
            /\ full_data' = AppendPoint(full_data, values, t)
            /\ last_update_time' = clock
            /\ data_updated' = data_updated + 1
       ELSE UNCHANGED <<data_acquisition_start_time, full_data, last_update_time, data_updated>>
    /\ UNCHANGED <<display_data, snapshot, pipeVars>>
    /\ UNCHANGED <<serialVars, touchVars, plotVars>>

\* a slip: clear_data forgets the full history and the epoch
ClearDisplayOnly ==
    /\ Len(store_log) < MaxCalls
    /\ store_log' = Append(store_log, [op |-> "clear"])
    /\ display_data' = [i \in 1..8 |-> <<>>]
    /\ UNCHANGED <<full_data, data_acquisition_start_time, last_update_time, data_updated>>
    /\ UNCHANGED <<snapshot, pipeVars, serialVars, touchVars, plotVars>>

\* a slip: clear_data resets the rate limiter as well
ClearDataResetsLimiter ==
    /\ Len(store_log) < MaxCalls
    /\ store_log' = Append(store_log, [op |-> "clear"])
    /\ display_data' = [i \in 1..8 |-> <<>>]
    /\ full_data' = [i \in 1..8 |-> <<>>]
    /\ data_acquisition_start_time' = -1
    /\ last_update_time' = InitialLastUpdate
    /\ UNCHANGED <<data_updated, snapshot, pipeVars>>
    /\ UNCHANGED <<serialVars, touchVars, plotVars>>

\* DataManager.clear_data()
ClearData ==
    /\ Len(store_log) < MaxCalls
    /\ store_log' = Append(store_log, [op |-> "clear"])
    /\ display_data' = [i \in 1..8 |-> <<>>]
    /\ full_data' = [i \in 1..8 |-> <<>>]
    /\ data_acquisition_start_time' = -1
    /\ UNCHANGED <<last_update_time, data_updated, snapshot, pipeVars>>
    /\ UNCHANGED <<serialVars, touchVars, plotVars>>

\* DataManager.get_all_data()
get_all_data == full_data

\* line 63: the range returned for an empty store, 0.0 s to 5.0 s in clock ticks
default_time_range == <<0, 100 * min_interval>>

\* DataManager.get_time_range()
get_time_range ==
    IF full_data[1] # <<>>
    THEN <<full_data[1][1][2], full_data[1][Len(full_data[1])][2]>>
    ELSE default_time_range

\* DataManager.has_data()
has_data == \E i \in 1..8 : Len(full_data[i]) > 0

\* DataManager.get_channel_data(channel_index): the caller keeps what is returned,
\* the list object full_data[channel_index] itself or a new empty list
GetChannelData(channel_index) ==
    /\ snapshot' = IF 0 <= channel_index /\ channel_index < 8
                   THEN [ref |-> "channel", ch |-> channel_index,
                         taken |-> full_data[channel_index + 1]]
                   ELSE [ref |-> "fresh", ch |-> channel_index, taken |-> <<>>]
    /\ UNCHANGED <<full_data, display_data, data_acquisition_start_time, last_update_time,
                   data_updated, store_log, pipeVars>>
    /\ UNCHANGED <<serialVars, touchVars, plotVars>>

\* DataManager.get_all_data(): the caller keeps the list object full_data
GetAllData ==
    /\ snapshot' = [ref |-> "all", ch |-> 0, taken |-> get_all_data]
    /\ UNCHANGED <<full_data, display_data, data_acquisition_start_time, last_update_time,
                   data_updated, store_log, pipeVars>>
    /\ UNCHANGED <<serialVars, touchVars, plotVars>>

\* what the list object the caller holds contains now
SnapshotContent ==
    CASE snapshot.ref = "channel" -> full_data[snapshot.ch + 1]
      [] snapshot.ref = "all" -> full_data
      [] OTHER -> <<>>

NextStore ==
    \/ Tick
    \/ \E v \in SampleIds : \E t \in 0..MaxClock : AddDataPoint(SampleOf(v), t)
    \/ ClearData

SpecStore == Init /\ [][NextStore]_vars

\* the channel indexes asked for: the first, the last and one past the last
AskedChannels == {0, 7, 8}

\* a consumer taking snapshots between the calls that change the store
NextSnapshot ==
    \/ Tick
    \/ \E t \in 0..1 : AddDataPoint(SampleOf(0), t)
    \/ ClearData
    \/ \E ch \in AskedChannels : GetChannelData(ch)
    \/ GetAllData

SpecSnapshot == Init /\ [][NextSnapshot]_vars

-----------------------------------------------------------------------------
(* The worker's samples reaching the DataManager in the consumer's thread.     *)
(* SerialThread.data_received is emitted in the worker thread; the connection  *)
(* made by connect_serial queues it to the thread the SerialThread object      *)
(* lives in, so the slots run one at a time in the consumer's event loop.      *)

\* the consumer's thread is between two slots: it can take the next queued sample
\* or read the store
ConsumerCanRead == mpc = "idle" /\ add_pc = 0

\* add_data_point, lines 24-32: the rate limit and the acquisition epoch
AddEnter(values, t) ==
    /\ add_pc = 0
    /\ IF Accepts(clock, last_update_time)
       THEN /\ data_acquisition_start_time' =
                   IF data_acquisition_start_time = -1 THEN t ELSE data_acquisition_start_time
            /\ add_args' = [values |-> values, t |-> t]
            /\ add_pc' = 1
       ELSE UNCHANGED <<data_acquisition_start_time, add_args, add_pc>>
    /\ UNCHANGED <<full_data, display_data, last_update_time, data_updated, store_log,
                   snapshot, observed>>

\* the slot of data_received: the next queued sample is passed to add_data_point
OnSample ==
    /\ ConsumerCanRead
    /\ delivered < Len(data_received)
    /\ delivered' = delivered + 1
    /\ AddEnter(data_received[delivered + 1].values, data_received[delivered + 1].time)
    /\ UNCHANGED <<serialVars, touchVars, plotVars>>

\* a slip: the loop over the channels ends after the four row channels
AddRowsOnly ==
    /\ add_pc \in 1..8
    /\ full_data' = [full_data EXCEPT ![add_pc] =
                        Append(@, <<add_args.values[add_pc], add_args.t>>)]
    /\ add_pc' = IF add_pc = 4 THEN 0 ELSE add_pc + 1
    /\ UNCHANGED <<display_data, data_acquisition_start_time, last_update_time, data_updated,
                   store_log, snapshot, add_args, delivered, observed>>
    /\ UNCHANGED <<serialVars, touchVars, plotVars>>

\* add_data_point, lines 35-38: one turn of the loop over the channels
AddChannel ==
    /\ add_pc \in 1..8
    /\ full_data' = [full_data EXCEPT ![add_pc] =
                        IF add_pc - 1 < Len(add_args.values)
                        THEN Append(@, <<add_args.values[add_pc], add_args.t>>)
                        ELSE @]
    /\ add_pc' = add_pc + 1
    /\ UNCHANGED <<display_data, data_acquisition_start_time, last_update_time, data_updated,
                   store_log, snapshot, add_args, delivered, observed>>
    /\ UNCHANGED <<serialVars, touchVars, plotVars>>

\* add_data_point, lines 41-45: the time of the update and the data_updated signal
AddExit ==
    /\ add_pc = 9
    /\ last_update_time' = clock
    /\ data_updated' = data_updated + 1
    /\ add_pc' = 0
    /\ UNCHANGED <<full_data, display_data, data_acquisition_start_time, store_log,
                   snapshot, add_args, delivered, observed>>
    /\ UNCHANGED <<serialVars, touchVars, plotVars>>

\* the consumer reads the store (plot update, export)
ConsumerRead ==
    /\ ConsumerCanRead
    /\ observed' = get_all_data
    /\ UNCHANGED <<full_data, display_data, data_acquisition_start_time, last_update_time,
                   data_updated, store_log, snapshot, add_pc, add_args, delivered>>
    /\ UNCHANGED <<serialVars, touchVars, plotVars>>

NextPipeline ==
    \/ Tick
    \/ ConnectSerial
    \/ ThreadInit
    \/ RunOpen
    \/ LoopTest
    \/ Send("F1")
    \/ Read(Len(wire))
    \/ Sleep
    \/ ProcessBuffer
    \/ OnSample
    \/ AddChannel
    \/ AddExit
    \/ ConsumerRead

SpecPipeline == Init /\ [][NextPipeline]_vars

-----------------------------------------------------------------------------
(* Claims about the store *)

RECURSIVE SinceClear(_)
\* the add_data_point calls of the log made since the last clear_data, in call order
SinceClear(log) ==
    IF log = <<>> THEN <<>>
    ELSE IF log[Len(log)].op = "clear" THEN <<>>
    ELSE Append(SinceClear(SubSeq(log, 1, Len(log) - 1)), log[Len(log)])

RECURSIVE Kept(_)
\* what the calls of the log leave in the store when a call is accepted exactly if
\* it comes at least 0.05 s after the last accepted call: the samples held since the
\* last clear and the time of the last accepted call
Kept(log) ==
    IF log = <<>> THEN [data |-> <<>>, last |-> InitialLastUpdate]
    ELSE LET before == Kept(SubSeq(log, 1, Len(log) - 1))
             call == log[Len(log)]
         IN  IF call.op = "clear" THEN [data |-> <<>>, last |-> before.last]
             ELSE IF call.at - before.last >= min_interval
                  THEN [data |-> Append(before.data, call), last |-> call.at]
                  ELSE before

\* channel i (1-based) of a store holding exactly the samples s, in order
ChannelOf(s, i) == [k \in 1..Len(s) |-> <<s[k].values[i], s[k].t>>]

IsPrefix(a, b) == Len(a) <= Len(b) /\ SubSeq(b, 1, Len(a)) = a

\* the step is a clear_data call
ClearStep == store_log' # store_log /\ store_log'[Len(store_log')].op = "clear"

\* C11: on every step that is not a clear_data call, the content of each full_data
\* channel before the step is a prefix of its content after the step: nothing else
\* removes, reorders or rewrites a stored point.
C11_AppendOnly ==
    [][~ClearStep => \A i \in 1..8 : IsPrefix(full_data[i], full_data'[i])]_vars

C11_Witness ==
    /\ Len(store_log) = 2
    /\ \A k \in 1..2 : store_log[k].op = "add"
    /\ \A i \in 1..8 : Len(full_data[i]) = 2 /\ full_data[i][1] # full_data[i][2]

\* the timestamps stored in a channel
TimesOf(ch) == {ch[k][2] : k \in 1..Len(ch)}

\* C12 (as claimed): get_time_range() is (0.0, 5.0) for an empty channel 0 and
\* otherwise (min, max) of the timestamps stored in channel 0, so its first
\* component never exceeds its second.
C12_TimeRange ==
    IF full_data[1] = <<>>
    THEN get_time_range = default_time_range
    ELSE /\ \A t \in TimesOf(full_data[1]) :
                get_time_range[1] <= t /\ t <= get_time_range[2]
         /\ get_time_range[1] <= get_time_range[2]

\* the store as the claim describes it after clear_data
Cleared ==
    /\ \A i \in 1..8 : full_data[i] = <<>> /\ display_data[i] = <<>>
    /\ ~has_data
    /\ get_time_range = default_time_range
    /\ data_acquisition_start_time = -1

\* the step is an add_data_point call that passes the rate limit
AcceptedStep ==
    /\ store_log' # store_log
    /\ store_log'[Len(store_log')].op = "add"
    /\ data_updated' # data_updated

\* the accepted sample of the step is the only point of every channel and its
\* timestamp is the new acquisition epoch
OnlyPoint ==
    LET call == store_log'[Len(store_log')]
    IN  /\ \A i \in 1..8 : full_data'[i] = << <<call.values[i], call.t>> >>
        /\ data_acquisition_start_time' = call.t

\* C13: a clear_data call leaves every channel of full_data and display_data empty,
\* has_data() False, get_time_range() (0.0, 5.0) and the acquisition epoch unset,
\* and the next sample accepted after it is the first point of every channel.
C13_Clear ==
    [][/\ ClearStep => Cleared'
       /\ (store_log # <<>> /\ store_log[Len(store_log)].op = "clear" /\ AcceptedStep)
             => OnlyPoint]_vars

C13_Witness ==
    /\ Len(store_log) = 3
    /\ store_log[1].op = "add" /\ store_log[1].at = 0
    /\ store_log[2].op = "clear"
    /\ store_log[3].op = "add"
    /\ \A i \in 1..8 : full_data[i] = << <<store_log[3].values[i], store_log[3].t>> >>

\* C14 (as claimed): a value returned by get_channel_data or get_all_data keeps the
\* content it had at the moment of the call, whatever add_data_point or clear_data
\* calls follow.
C14_SnapshotImmutable ==
    snapshot.ref # "none" => SnapshotContent = snapshot.taken

\* every channel of the store d has the same length and the k-th points of all
\* channels carry the same timestamp
Consistent(d) ==
    \A i \in 1..8 :
        /\ Len(d[i]) = Len(d[1])
        /\ \A k \in 1..Len(d[i]) : d[i][k][2] = d[1][k][2]

-----------------------------------------------------------------------------
(* Claims about the session *)

\* C16 (as claimed): at no time do two SerialThread workers of the SerialManager run
\* at once: a connect_serial call made while a worker is running is rejected or
\* stops that worker first.
C16_SingleProducer == RunningWorkers <= 1

\* C17 (as claimed): once stop() has been requested on the started SerialThread, the
\* worker's next test of the running flag finds it cleared and leaves the loop for
\* the finally clause, also when the request came before the port was opened.
C17_CooperativeStop ==
    [][(stop_requested /\ wpc = "loop" /\ wpc' # wpc /\ mpc' = mpc) => wpc' = "finally"]_vars

\* the pipeline state a stop request leaves behind
PipelineState == <<running, port_open, time_offset, last_time_offset>>

\* C18 (as claimed): once a stop has been requested and the worker has exited, a
\* further stop() or disconnect_serial() leaves the running flag, the port, the
\* stored time offset and the persisted carried offset as the first request left
\* them.
C18_StopIdempotent ==
    [][(stop_requested /\ wpc = "finished" /\ mpc = "idle" /\ mpc' = "idle")
          => PipelineState' = PipelineState]_vars

\* the last status emitted
LastStatus(st) == st[Len(st)]

\* C19: a serial.SerialException raised by opening the port, by the test write or by
\* a read makes the worker emit an error status and go to its finally clause; from
\* then on it reads nothing and opens no port, the 'disconnected' status of its
\* finally clause comes right after its error status, and the worker ends finished
\* (is_connected() False) with the port closed.
C19_TransportErrorEnds ==
    /\ [](failed => wpc \in {"finally", "finished"})
    /\ [][(~failed /\ failed')
            => /\ status_changed' = Append(status_changed, LastStatus(status_changed'))
               /\ LastStatus(status_changed') \in ErrorStatuses
               /\ wpc' = "finally"]_vars
    /\ [][(failed /\ failed')
            => /\ data_received' = data_received
               /\ buffer' = buffer
               /\ port_open' => port_open]_vars
    /\ [][(failed /\ wpc = "finally" /\ wpc' = "finished")
            => /\ LastStatus(status_changed) \in ErrorStatuses
               /\ LastStatus(status_changed') = "disconnected"
               /\ ~port_open']_vars
    /\ failed ~> (wpc = "finished" /\ ~IsRunning /\ ~port_open)

C19_Witness ==
    /\ failed
    /\ wpc = "finished"
    /\ ~port_open
    /\ status_changed = <<"connected", "read_error", "disconnected">>
    /\ Len(data_received) = 1

\* C20: whatever the buffer holds, a step of process_buffer emits no status, leaves
\* the running flag and the port alone and hands control back to the acquisition
\* loop: a short frame or an overflow is no error for the consumer.
C20_AnomaliesAbsorbed ==
    [][wpc = "process"
          => /\ status_changed' = status_changed
             /\ wpc' \in {"process", "loop"}
             /\ running' = running
             /\ port_open' = port_open
             /\ failed' = failed]_vars

C20_Witness ==
    /\ wpc = "loop"
    /\ running
    /\ status_changed = <<"connected">>
    /\ wire = <<>>
    /\ Len(buffer) = frame_length
    /\ buffer[1] = NoiseByte
    /\ \E i \in 1..Len(sent) : sent[i] = "GTail"
    /\ data_received = <<>>

\* the place of a worker position in the order Idle, Running, Stopping, Idle
PhaseRank(pc) ==
    CASE pc \in {"none", "created"} -> 0
      [] pc \in {"loop", "read", "process"} -> 1
      [] pc = "finally" -> 2
      [] pc = "finished" -> 3

\* C21: a SerialThread moves through Idle, Running, Stopping, Idle in that order and
\* never back; it enters Running exactly when it emits 'connected', emits samples
\* only while Running, emits its own 'disconnected' when it leaves Stopping, and
\* once idle again it stays idle.
C21_Lifecycle ==
    /\ [][thread' = thread => PhaseRank(wpc') >= PhaseRank(wpc)]_vars
    /\ [][(PhaseRank(wpc') = 1 /\ PhaseRank(wpc) # 1)
            => /\ wpc = "created" /\ thread' = thread
               /\ status_changed' = Append(status_changed, "connected")]_vars
    /\ [][data_received' # data_received
            => /\ PhaseRank(wpc) = 1 /\ PhaseRank(wpc') = 1
               /\ status_changed' = status_changed
               /\ \A i \in Len(data_received) + 1..Len(data_received') :
                      data_received'[i].thread = thread]_vars
    /\ [][(PhaseRank(wpc) = 2 /\ wpc' # wpc)
            => wpc' = "finished" /\ LastStatus(status_changed') = "disconnected"]_vars
    /\ [][(wpc = "finished" /\ thread' = thread) => wpc' = "finished"]_vars

C21_Witness ==
    /\ thread = 2
    /\ wpc = "finished"
    /\ stop_requested
    /\ ~failed
    /\ \E i \in 1..Len(data_received) : data_received[i].thread = 2
    /\ LastStatus(status_changed) = "disconnected"

\* the step emits the status 'disconnected'
EmitsDisconnected ==
    /\ Len(status_changed') > Len(status_changed)
    /\ LastStatus(status_changed') = "disconnected"

\* C25: whenever run() ends, by a stop request, a read error, a failed test write, a
\* failed open or a forced termination, the port is closed and the last status is
\* 'disconnected'; no 'disconnected' status is emitted with the port open, and the
\* port stays closed for as long as the worker is finished.
C25_TransportReleased ==
    [][/\ (wpc # "finished" /\ wpc' = "finished") =>
            (~port_open' /\ LastStatus(status_changed') = "disconnected")
       /\ EmitsDisconnected => ~port_open'
       /\ wpc' = "finished" => ~port_open']_vars

\* the device failed under a worker whose port was open and that no one had asked
\* to stop: run() has ended with the port closed
C25_Witness ==
    /\ wpc = "finished"
    /\ ~stop_requested
    /\ status_changed = <<"connected", "read_error", "disconnected">>
    /\ data_received # <<>>
    /\ ~port_open

-----------------------------------------------------------------------------
(* Further claims about the decoder *)

\* the frames whose 32 payload bytes hold no tail sequence
CleanFrames == {k \in FrameKinds : TailIndex(PackFrame(Payload(k))) = -1}

RECURSIVE BytesOf(_)
\* the bytes of the segments s, in stream order
BytesOf(s) == IF s = <<>> THEN <<>> ELSE SegBytes(Head(s)) \o BytesOf(Tail(s))

\* from segment j + 1 on, the stream is made of clean frames only
CleanFrom(j) == \A i \in j + 1..Len(sent) : sent[i] \in CleanFrames

\* the payloads of the frames that follow segment j + 1
LaterFrames(j) == [i \in 1..Len(sent) - j - 1 |-> Payload(sent[j + 1 + i])]

\* C22: when the stream is any j segments followed by clean frames only, then once
\* all bytes are fed, in any chunking, the samples emitted last are the frames after
\* the first clean one, each once and in stream order; only that first frame can be
\* lost, and what is emitted before them comes from tail sequences of the first
\* j + 1 segments.
C22_SelfHealing ==
    AllFed =>
        \A j \in 0..Len(sent) - 1 :
            CleanFrom(j) =>
                LET later == LaterFrames(j)
                    before == Len(EmittedValues) - Len(later)
                IN  /\ before >= 0
                    /\ Last(EmittedValues, Len(later)) = later
                    /\ before <= Cardinality(TailPlaces(BytesOf(SubSeq(sent, 1, j + 1))))

C22_Witness ==
    /\ AllFed
    /\ sent = <<"GT3", "FS", "F2">>
    /\ EmittedValues = <<Payload("F2")>>

\* the step is an iteration of process_buffer
IterStep ==
    /\ wpc = "process"
    /\ wpc' # wpc \/ buffer' # buffer \/ data_received' # data_received

\* the step is an iteration of process_buffer on a buffer without a tail
NoTailAhead == IterStep /\ TailIndex(buffer) = -1

\* C23 (as stated): when the buffer holds no tail sequence, process_buffer emits no
\* sample and leaves the buffer bytes unchanged.
C23_PendingUnchanged ==
    [][NoTailAhead => (data_received' = data_received /\ buffer' = buffer)]_vars

\* C23 (amended): when the buffer holds no tail sequence, process_buffer emits no
\* sample and leaves a buffer of at most 360 bytes unchanged, so that the next
\* chunk is appended to all of them; a longer one is cut to its last 36 bytes.
C23_PendingRetained ==
    [][(NoTailAhead =>
            /\ data_received' = data_received
            /\ buffer' = IF Len(buffer) > max_buffer_size
                         THEN Last(buffer, frame_length)
                         ELSE buffer)
       /\ ((wpc = "read" /\ wpc' = "process") =>
            /\ IsPrefix(buffer, buffer')
            /\ Len(buffer') > Len(buffer))]_vars

\* process_buffer has returned and a whole frame length of pending bytes is kept
C23_Witness ==
    /\ wpc = "loop"
    /\ TailIndex(buffer) = -1
    /\ Len(buffer) = MaxBurst
    /\ sent = <<"F1">>
    /\ Len(data_received) = 1

\* the number of tail sequences in the buffer
Tails(buf) == Cardinality(TailPlaces(buf))

\* C24: every iteration of process_buffer either leaves the loop or removes at
\* least 4 bytes from the buffer, so the loop ends after finitely many iterations;
\* an iteration emits at most one sample, and one it emits costs the buffer a tail
\* sequence, none being added, so a call emits at most one sample per tail present.
C24_DrainTerminates ==
    [][IterStep =>
            /\ wpc' = "loop" \/ Len(buffer') + 4 <= Len(buffer)
            /\ Len(data_received') <= Len(data_received) + 1
            /\ Tails(buffer') <= Tails(buffer)
            /\ data_received' # data_received => Tails(buffer') < Tails(buffer)]_vars

\* two iterations of one call have emitted a sample each and a third tail is left
C24_Witness ==
    /\ wpc = "process"
    /\ sent = <<"F1", "F1", "GTail">>
    /\ wire = <<>>
    /\ Len(data_received) = 2
    /\ buffer = SegBytes("GTail")

\* the frames sent on the noisy line: a plain one and one with +inf on CH3
FlightKinds == {"F1", "FInf"}

\* a noisy line on which a read can find a frame that has arrived in part only
NextInFlight ==
    \/ ConnectSerial
    \/ ThreadInit
    \/ RunOpen
    \/ LoopTest
    \/ \E k \in FlightKinds : Send(k)
    \/ Noise(MaxBurst)
    \/ \E n \in 1..frame_length - 1 : Len(wire) = frame_length /\ Read(n)
    \/ Read(Len(wire))
    \/ Sleep
    \/ ProcessBuffer

SpecInFlight == Init /\ [][NextInFlight]_vars

\* C27: each time process_buffer has returned, the buffer is shorter than 36 bytes,
\* or it holds no tail sequence and at most 360 bytes.
C27_PostDrain ==
    wpc # "process" =>
        \/ Len(buffer) < frame_length
        \/ TailIndex(buffer) = -1 /\ Len(buffer) <= max_buffer_size

\* process_buffer has returned, after a sample, with more than 36 bytes that hold no
\* tail: noise followed by the part of a frame that has arrived
C27_Witness ==
    /\ wpc = "loop"
    /\ data_received # <<>>
    /\ Len(buffer) > frame_length
    /\ TailIndex(buffer) = -1
    /\ buffer[1] = NoiseByte
    /\ buffer[Len(buffer)] # NoiseByte

\* the first n bytes of a frame of kind k are the last bytes of the buffer and the
\* rest of the frame is still to be read
InFlight(k, n) ==
    /\ Len(buffer) >= n
    /\ Last(buffer, n) = SubSeq(SegBytes(k), 1, n)
    /\ Len(wire) >= frame_length - n
    /\ SubSeq(wire, 1, frame_length - n) = SubSeq(SegBytes(k), n + 1, frame_length)

\* the step is an iteration that truncates a buffer grown too large without a tail
TruncationStep ==
    /\ IterStep
    /\ TailIndex(buffer) = -1
    /\ Len(buffer) > max_buffer_size

\* the buffer starts with the j bytes of noise a truncation left, followed by the
\* whole frame of kind k that was in flight then
Completed(k, j) ==
    /\ Len(buffer) >= j + frame_length
    /\ \A i \in 1..j : buffer[i] = NoiseByte
    /\ SubSeq(buffer, j + 1, j + frame_length) = SegBytes(k)

\* C28 (as claimed): a truncation keeps every byte of a frame in flight, and the
\* iteration that finds the frame completed behind the noise left by the truncation
\* emits one sample with the 8 values of the frame.
C28_FrameInFlightKept ==
    [][\A k \in FlightKinds : \A n \in 1..frame_length - 1 :
            /\ (TruncationStep /\ InFlight(k, n)) =>
                    /\ Len(buffer') >= n
                    /\ Last(buffer', n) = SubSeq(SegBytes(k), 1, n)
            /\ (IterStep /\ Completed(k, frame_length - n)) =>
                    /\ Len(data_received') = Len(data_received) + 1
                    /\ data_received'[Len(data_received')].values = Payload(k)]_vars

-----------------------------------------------------------------------------
(* PlotManager *)

\* plot_manager.py line 25: the constructor's argument
max_data_points == MaxWindow

\* plot_manager.py line 48: 0.5 V, in steps
plot_touch_threshold == 1

\* a slip: the whole queue is cut back to the window start
QueueAfterKeepsOldest(queue, point) ==
    LET appended == Append(queue, point) IN
    IF Len(appended) > max_data_points THEN SubSeq(appended, 1, max_data_points) ELSE appended

\* lines 73-75: the point is appended and the oldest one removed from a queue that
\* has grown past the window
QueueAfter(queue, point) ==
    LET appended == Append(queue, point) IN
    IF Len(appended) > max_data_points THEN Tail(appended) ELSE appended

\* a slip: the columns are read from CH4 on
PlotActivatedColsShifted(values) ==
    {i \in 0..(Len(values) - 5) : values[i + 4] > plot_touch_threshold}

\* line 115 over row_signals = values[:4]
PlotActivatedRows(values) ==
    {i \in 0..3 : i < Len(values) /\ values[i + 1] > plot_touch_threshold}

\* line 117 over col_signals = values[4:]
PlotActivatedCols(values) ==
    {i \in 0..(Len(values) - 5) : values[i + 5] > plot_touch_threshold}

\* line 120
PlotTouched(values) ==
    /\ Cardinality(PlotActivatedRows(values)) = 1
    /\ Cardinality(PlotActivatedCols(values)) = 1

\* lines 121-124: what update_plots emits on update_pixel_map_signal
PixelMapEmits(values) ==
    IF PlotTouched(values)
    THEN <<<<TheOne(PlotActivatedRows(values)), TheOne(PlotActivatedCols(values))>>>>
    ELSE <<>>

\* lines 126-128: what it emits on update_digital_matrix_signal, given the queue of
\* CH1 after the append
DigitalMatrixEmits(values, queue) ==
    IF PlotTouched(values) /\ queue # <<>>
    THEN <<<<TheOne(PlotActivatedRows(values)), TheOne(PlotActivatedCols(values)),
             queue[Len(queue)][2]>>>>
    ELSE <<>>

\* PlotManager.update_plots([values, current_time_s])
UpdatePlots(values, current_time_s) ==
    /\ plot_start_time' = IF plot_start_time = -1 THEN current_time_s ELSE plot_start_time
    /\ data_queues' = [i \in 1..8 |-> QueueAfter(data_queues[i], <<values[i], current_time_s>>)]
    /\ pixel_map_signal' = PixelMapEmits(values)
    /\ digital_matrix_signal' = DigitalMatrixEmits(values, data_queues'[1])
    /\ plot_log' = Append(plot_log, [values |-> values, time |-> current_time_s])
    /\ UNCHANGED <<serialVars, touchVars, storeVars>>

\* PlotManager._clear_plot_data
ClearPlotData ==
    /\ data_queues' = [i \in 1..8 |-> <<>>]
    /\ plot_start_time' = -1
    /\ pixel_map_signal' = <<<<-1, -1>>>>
    /\ digital_matrix_signal' = <<>>
    /\ plot_log' = <<>>
    /\ UNCHANGED <<serialVars, touchVars, storeVars>>

\* the samples shown: no channel active, and row 1 with column 2 active
WindowSamples ==
    {[i \in 1..8 |-> 0],
     [i \in 1..8 |-> IF i \in {2, 7} THEN plot_touch_threshold + 1 ELSE 0]}

\* samples arrive at the PlotManager as time goes by, and the user clears the plots
NextWindow ==
    \/ Tick
    \/ \E values \in WindowSamples :
            Len(plot_log) < MaxCalls /\ UpdatePlots(values, clock)
    \/ ClearPlotData

SpecWindow == Init /\ [][NextWindow]_vars

\* the last n points of channel i + 1 handed to update_plots, oldest first
Recent(i, n) ==
    [j \in 1..n |-> <<plot_log[Len(plot_log) - n + j].values[i], plot_log[Len(plot_log) - n + j].time>>]

\* C26: after every update_plots call each of the 8 queues holds the points of the
\* last min(calls, max_data_points) samples handed over since the last clear, in
\* arrival order, so at most max_data_points of them and as many in every queue;
\* a call on a full window removes the single oldest point.
C26_DisplayWindow ==
    LET n == IF Len(plot_log) > max_data_points THEN max_data_points ELSE Len(plot_log) IN
    \A i \in 1..8 :
        /\ Len(data_queues[i]) <= max_data_points
        /\ Len(data_queues[i]) = Len(data_queues[1])
        /\ data_queues[i] = Recent(i, n)

\* a call has pushed the oldest point out of a full window
C26_Witness ==
    /\ Len(plot_log) = max_data_points + 1
    /\ Len(data_queues[8]) = max_data_points
    /\ data_queues[1][1][2] = plot_log[2].time
    /\ plot_log[1].time < plot_log[2].time
    /\ plot_log[2].time < plot_log[3].time

\* a detector built with any threshold and a PlotManager, about to classify the
\* same 8 channel values
ClassifyInputs ==
    /\ touch_values \in [1..8 -> Levels]
    /\ touch_threshold \in Levels
    /\ touch_result = <<>>
    /\ touch_used = touch_threshold
    /\ touch_detected = <<>>

InitClassify == InitSerial /\ ClassifyInputs /\ InitStore /\ InitPlot

\* the sample is handed to detect_touch and, one tick after the other, to
\* update_plots until the window is full
NextClassify ==
    \/ DetectTouch
    \/ Len(plot_log) < max_data_points /\ UpdatePlots(touch_values, Len(plot_log))

SpecClassify == InitClassify /\ [][NextClassify]_vars

\* both classifiers have been given the sample, with equal thresholds
BothClassified ==
    /\ plot_log # <<>>
    /\ touch_result # <<>>
    /\ touch_used = plot_touch_threshold

\* the sample has no active row or column, or more than one of either
NoSingleTouch ==
    \/ Cardinality({i \in 1..4 : touch_values[i] > plot_touch_threshold}) # 1
    \/ Cardinality({i \in 5..8 : touch_values[i] > plot_touch_threshold}) # 1

\* C29: for equal thresholds update_plots emits update_pixel_map_signal(r, c) exactly
\* when detect_touch returns (r, c) other than (-1, -1) for the same 8 values, with
\* the same r and c; neither emits a touch for zero or several activations; and the
\* time sent on update_digital_matrix_signal is the time of that same sample.
C29_ClassifiersAgree ==
    BothClassified =>
        /\ pixel_map_signal # <<>> <=> touch_result # <<-1, -1>>
        /\ pixel_map_signal # <<>> => pixel_map_signal = <<touch_result>>
        /\ NoSingleTouch =>
                /\ pixel_map_signal = <<>>
                /\ digital_matrix_signal = <<>>
                /\ touch_detected = <<>>
        /\ digital_matrix_signal =
                IF touch_result = <<-1, -1>>
                THEN <<>>
                ELSE <<<<touch_result[1], touch_result[2], plot_log[Len(plot_log)].time>>>>

\* row 1 and column 2 alone are active in a sample shown twice: both classifiers
\* report (1, 2) and the time sent is that of the second showing
C29_Witness ==
    /\ BothClassified
    /\ Len(plot_log) = 2
    /\ touch_result = <<1, 2>>
    /\ pixel_map_signal = <<<<1, 2>>>>
    /\ digital_matrix_signal = <<<<1, 2, plot_log[2].time>>>>
    /\ plot_log[1].time # plot_log[2].time

-----------------------------------------------------------------------------
(* A further claim about the DataManager *)

\* the step is an add_data_point call
AddStep == store_log' # store_log /\ store_log'[Len(store_log')].op = "add"

\* the call of the step comes less than 0.05 s after the last accepted call
TooSoon == store_log'[Len(store_log')].at - Kept(store_log).last < min_interval

\* C30: an add_data_point call that comes less than 0.05 s after the last accepted
\* call returns False, leaves full_data, display_data and the acquisition epoch as
\* they are and emits no data_updated; any other call returns True, appends its
\* sample to every channel and emits data_updated once. A clear_data call leaves the
\* time of the last accepted call as it is, so the call after it can be rejected.
C30_RateLimit ==
    [][/\ (AddStep /\ TooSoon) =>
            /\ ~store_log'[Len(store_log')].ret
            /\ UNCHANGED <<full_data, display_data, data_acquisition_start_time, data_updated>>
       /\ (AddStep /\ ~TooSoon) =>
            /\ store_log'[Len(store_log')].ret
            /\ \A i \in 1..8 :
                    full_data'[i] = Append(full_data[i], <<store_log'[Len(store_log')].values[i],
                                                           store_log'[Len(store_log')].t>>)
            /\ data_updated' = data_updated + 1
       /\ ClearStep => Kept(store_log').last = Kept(store_log).last
       /\ (ClearStep \/ AddStep) => last_update_time' = Kept(store_log').last]_vars

\* a sample was accepted, the store cleared, and the call made right after the
\* clear was rejected
C30_Witness ==
    /\ Len(store_log) = 3
    /\ store_log[1].op = "add" /\ store_log[1].ret
    /\ store_log[2].op = "clear"
    /\ store_log[3].op = "add" /\ ~store_log[3].ret
    /\ \A i \in 1..8 : full_data[i] = <<>>
    /\ data_updated = 1

=============================================================================
